---- MODULE Spec2Model ----
(***************************************************************************)
(* Product catalog backend: the Product model (schema, pre-save hooks,     *)
(* counter methods) and the /api/products routes (list, get, create,       *)
(* update, soft delete, download) over a shared document store; and the    *)
(* /api/newsletter routes (subscribe, unsubscribe, count) over their       *)
(* in-memory set of subscribers.                                           *)
(*                                                                         *)
(* Strings that the code inspects character by character (names, slugs,    *)
(* route identifiers) are sequences of one-character strings.              *)
(***************************************************************************)
EXTENDS Integers, Sequences, FiniteSets, Bags, TLC

\* ------------------------------------------------------------------ bounds

\* Products the store may hold.
MaxProducts == 2
\* Requests that may be in flight (between two awaits) at once.
MaxReqs == 2
\* Cap on a usage counter: no increment is dispatched from a document whose
\* counter already reached it.
MaxCount == 2
\* Longest images array a request submits.
MaxImages == 3

\* ------------------------------------------------------- program constants

\* /^[0-9a-fA-F]{24}$/ in GET /:identifier.
ObjectIdLen == 24
\* body('name').isLength({ min: 1, max: 100 }).
MinNameLen == 1
MaxNameLen == 100
\* error.code of the store's duplicate-key error, tested in POST / catch.
DuplicateKeyCode == 11000
\* page = 1, limit = 12 defaults of GET /.
DefaultPage == 1
DefaultLimit == 12
\* query('limit').isInt({ min: 1, max: 100 }).
MaxLimit == 100
\* query('search').isLength({ min: 1, max: 100 }).
MaxSearchLen == 100
\* body('name').isLength({ min: 2, max: 100 }) of POST /subscribe.
MinSubscriberNameLen == 2
MaxSubscriberNameLen == 100

\* ------------------------------------------------------------- characters

LowerChars == {"a", "b"}
UpperChars == {"A"}
DigitChars == {"0", "1", "2", "3", "4", "5", "6", "7", "8", "9"}
Whitespace == {" "}
AlphaNum == LowerChars \cup UpperChars \cup DigitChars
\* [0-9a-fA-F] restricted to the characters of the model.
HexChars == DigitChars \cup {"a", "b", "A"}

toLowerCase(ch) == IF ch = "A" THEN "a" ELSE ch

\* String.prototype.trim on a sequence of characters.
RECURSIVE TrimLeft(_)
TrimLeft(s) ==
  IF s # <<>> /\ Head(s) \in Whitespace THEN TrimLeft(Tail(s)) ELSE s

RECURSIVE TrimRight(_)
TrimRight(s) ==
  IF s # <<>> /\ s[Len(s)] \in Whitespace
    THEN TrimRight(SubSeq(s, 1, Len(s) - 1))
    ELSE s

Trim(s) == TrimRight(TrimLeft(s))

\* slug.replace(/\s+/g, '-'): every maximal run of whitespace becomes one
\* replacement character.
RECURSIVE CollapseSpaces(_)
CollapseSpaces(s) ==
  IF s = <<>> THEN <<>>
  ELSE IF Head(s) \in Whitespace
    THEN <<"-">> \o CollapseSpaces(TrimLeft(s))
    ELSE <<Head(s)>> \o CollapseSpaces(Tail(s))

\* slugify(name, { lower: true, strict: true }) of the slugify package, as the
\* pre-save hook calls it: the replacement character '-' is read as a space,
\* strict removes everything but letters, digits and whitespace, the result is
\* trimmed, whitespace runs become '-', and the whole is lowercased.
slugify(name) ==
  LET spaced == [i \in 1..Len(name) |-> IF name[i] = "-" THEN " " ELSE name[i]]
      strict == SelectSeq(spaced, LAMBDA c : c \in AlphaNum \cup Whitespace)
      joined == CollapseSpaces(Trim(strict))
  IN  [i \in 1..Len(joined) |-> toLowerCase(joined[i])]

\* --------------------------------------------------------- store identifiers

DigitOf(n) == <<"1", "2", "3", "4", "5", "6", "7", "8", "9">>[n]

\* The store-assigned identifier of the n-th inserted document, as the
\* 24-character hex string the routes receive.
ObjectIds ==
  [n \in 1..9 |-> [i \in 1..ObjectIdLen |-> IF i = ObjectIdLen THEN DigitOf(n) ELSE "0"]]

ObjectId(n) == ObjectIds[n]

\* identifier.match(/^[0-9a-fA-F]{24}$/)
IsObjectIdShaped(x) ==
  /\ Len(x) = ObjectIdLen
  /\ \A i \in 1..Len(x) : x[i] \in HexChars

\* ------------------------------------------------------------ Product schema

Categories ==
  {"templates", "components", "themes", "plugins", "courses", "ebooks", "graphics", "other"}

\* The paths of the Product schema that the routes and hooks read or write.
\* stats.views, stats.downloads, stats.sales, stats.rating.average and
\* stats.rating.count are the paths views, downloads, sales, ratingAverage and
\* ratingCount.
Fields ==
  {"name", "slug", "price", "category", "isFeatured", "isActive", "images",
   "views", "downloads", "sales", "ratingAverage", "ratingCount",
   "createdBy", "updatedBy"}

NoUser == "none"
NoCategory == "none"

\* A document with the schema's defaults and nothing set.
SchemaDefaults ==
  [name |-> <<>>, slug |-> <<>>, price |-> 0, category |-> NoCategory,
   isFeatured |-> FALSE, isActive |-> TRUE, images |-> <<>>,
   views |-> 0, downloads |-> 0, sales |-> 0,
   ratingAverage |-> 0, ratingCount |-> 0,
   createdBy |-> NoUser, updatedBy |-> NoUser]

\* product[key] = req.body[key] for every key of the body (and the document
\* constructor's copy of its argument): a key of the schema takes the body's
\* value; the name is stored trimmed (schema option trim: true).
Cast(key, value) == IF key = "name" THEN Trim(value) ELSE value

Assign(doc, body) ==
  [k \in Fields |-> IF k \in DOMAIN body THEN Cast(k, body[k]) ELSE doc[k]]

\* The paths of doc that differ from the document as it was loaded: what
\* isModified reports and what save() sends to the store.
ModifiedPaths(doc, loaded) == {k \in Fields : doc[k] # loaded[k]}

\* Pre-save hook: this.slug = slugify(this.name, ...) when name is modified.
SlugHook(doc, modified) ==
  IF "name" \in modified THEN [doc EXCEPT !.slug = slugify(doc.name)] ELSE doc

\* Body of the second pre-save hook on the images array.
ReconcilePrimary(images) ==
  LET primaryImages == SelectSeq(images, LAMBDA img : img.isPrimary)
  IN  IF Len(primaryImages) > 1
        THEN [i \in 1..Len(images) |->
                IF i > 1 THEN [images[i] EXCEPT !.isPrimary = FALSE] ELSE images[i]]
      ELSE IF Len(primaryImages) = 0 /\ Len(images) > 0
        THEN [images EXCEPT ![1].isPrimary = TRUE]
      ELSE images

\* Pre-save hook: reconcile the primary image when images is modified.
ImagesHook(doc, modified) ==
  IF "images" \in modified
    THEN [doc EXCEPT !.images = ReconcilePrimary(doc.images)]
    ELSE doc

\* Both pre-save hooks, in registration order.
PreSave(doc, modified) == ImagesHook(SlugHook(doc, modified), modified)

\* incrementViews / incrementDownloads / incrementSales: the cached document's
\* counter plus one; save() follows.
Increment(doc, counter) == [doc EXCEPT ![counter] = doc[counter] + 1]

\* A store without the unique index: every write of slug is admitted.
SlugIndexAdmits_NoIndex(st, self, slug) == TRUE

\* The unique index on slug: a write of `slug` to document `self` is admitted
\* when no other stored document holds it.
SlugIndexAdmits(st, self, slug) ==
  \A other \in DOMAIN st : other # self => st[other].slug # slug

\* A save() that sends the whole document as it is in memory.
Delta_WholeDocument(doc, loaded) ==
  LET hooked == PreSave(doc, ModifiedPaths(doc, loaded))
  IN  [k \in Fields |-> hooked[k]]

\* What save() of a loaded document sends to the store: the paths modified
\* since the load, after the pre-save hooks, with their values ($set).
Delta(doc, loaded) ==
  LET hooked == PreSave(doc, ModifiedPaths(doc, loaded))
  IN  [k \in ModifiedPaths(hooked, loaded) |-> hooked[k]]

\* The store applies a $set to the stored document, whatever its other paths
\* hold by now.
ApplyDelta(stored, delta) ==
  [k \in Fields |-> IF k \in DOMAIN delta THEN delta[k] ELSE stored[k]]

\* ------------------------------------------------------------------- state

VARIABLES
  store,    \* the products collection: index of insertion -> stored document
  saves,    \* bag of save() calls in flight: a loaded document, as modified
            \* in memory, whose write has not reached the store yet
  listReq,  \* the GET / request between its two store reads and its response
  last,     \* the last completed exchange: the request and its response
  log,      \* the messages written by the catch blocks that answer nothing:
            \* the .catch(...) of the increments that no handler awaits and
            \* the catch of the welcome e-mail (a handler's own catch block
            \* logs and then responds: the exchange shows it)
  subscribers,  \* the newsletter's in-memory Set of e-mail addresses
  welcomes      \* bag of POST /subscribe requests awaiting sendEmail(...)

vars == <<store, saves, listReq, last, log, subscribers, welcomes>>

\* The indexes of the stored products.
Ids == DOMAIN store

\* Product.findById(x): the index of the document whose identifier is x, or 0.
FindById(st, x) ==
  IF \E id \in DOMAIN st : ObjectId(id) = x
    THEN CHOOSE id \in DOMAIN st : ObjectId(id) = x
    ELSE 0

\* Product.findOne({ slug: x }): the index of the document whose slug is x, or 0.
FindBySlug(st, x) ==
  IF \E id \in DOMAIN st : st[id].slug = x
    THEN CHOOSE id \in DOMAIN st : st[id].slug = x
    ELSE 0

\* GET /:identifier: by identifier when x has the identifier's shape, by slug
\* otherwise.
Lookup(st, x) == IF IsObjectIdShaped(x) THEN FindById(st, x) ELSE FindBySlug(st, x)

\* A test that hides only what is missing: if (!product).
Hidden_MissingOnly(st, id) == id = 0

\* if (!product || !product.isActive) of GET /:identifier and GET /:id/download.
Hidden(st, id) == id = 0 \/ ~st[id].isActive

\* ---------------------------------------------------------------- exchanges

NoBody == [k \in {} |-> 0]
NoList ==
  [data |-> <<>>, currentPage |-> 0, totalPages |-> 0, totalProducts |-> 0,
   hasNextPage |-> FALSE, hasPrevPage |-> FALSE, limit |-> 0]

\* A completed exchange. op, target, body, files (the number of uploaded
\* files) and actor are the request; seq tells two successive exchanges apart
\* (it alternates); status,
\* error, doc (the product in the response), pid (its index, 0 when none),
\* dup (the store refused a duplicate key), list and count (the subscriberCount
\* of GET /count) are the response.
Exchange(op, target, body, actor, status, error, pid, doc, dup, list) ==
  [seq |-> 1 - last.seq, op |-> op, target |-> target, body |-> body,
   files |-> 0, actor |-> actor, status |-> status, error |-> error, errors |-> {},
   pid |-> pid, doc |-> doc, dup |-> dup, list |-> list, count |-> 0]

NoExchange ==
  [seq |-> 0, op |-> "none", target |-> <<>>, body |-> NoBody, files |-> 0,
   actor |-> NoUser,
   status |-> 0, error |-> "none", errors |-> {}, pid |-> 0, doc |-> SchemaDefaults,
   dup |-> FALSE, list |-> NoList, count |-> 0]

\* An exchange completes in this step.
Responds == last'.seq # last.seq

\* ---------------------------------------------------------------- validation

\* The express-validator chains of POST / (every field required) and PUT /:id
\* (every field optional): the fields that fail.
InvalidFields(body, required) ==
  {k \in {"name", "price", "category"} :
     IF k \in DOMAIN body
       THEN CASE k = "name" ->
                   ~(Len(Trim(body.name)) >= MinNameLen /\ Len(Trim(body.name)) <= MaxNameLen)
              [] k = "price" -> ~(body.price >= 0)
              [] k = "category" -> body.category \notin Categories
       ELSE required}

\* ------------------------------------------------------------------- create

\* new Product({ ...req.body, createdBy: req.user.id }), images taken from the
\* uploaded files when there are any.
FileImages(files) == [i \in 1..files |-> [isPrimary |-> (i = 1)]]

NewProduct(body, actor, files) ==
  LET doc == [Assign(SchemaDefaults, body) EXCEPT !.createdBy = actor]
  IN  IF files > 0 THEN [doc EXCEPT !.images = FileImages(files)] ELSE doc

\* catch of POST /: the store's duplicate-key error becomes the 400 'Product
\* with this name already exists', anything else the generic 500.
CreateCatch(code) ==
  IF code = DuplicateKeyCode
    THEN [status |-> 400, error |-> "DuplicateSlug"]
    ELSE [status |-> 500, error |-> "ServerError"]

\* catch of PUT /:id and of DELETE /:id: every error becomes the generic 500.
UpdateCatch(code) == [status |-> 500, error |-> "ServerError"]
DeleteCatch(code) == [status |-> 500, error |-> "ServerError"]

\* POST /: validate, build the document, save it (pre-save hooks, then the
\* insert, which the unique index on slug may refuse), respond.
CreateProduct(body, actor, files) ==
  /\ LET invalid == InvalidFields(body, TRUE)
         fresh == NewProduct(body, actor, files)
         doc == PreSave(fresh, ModifiedPaths(fresh, SchemaDefaults))
         id == Cardinality(Ids) + 1
     IN  IF invalid # {}
           THEN /\ last' = [Exchange("create", <<>>, body, actor, 400, "ValidationError",
                                     0, SchemaDefaults, FALSE, NoList)
                              EXCEPT !.files = files, !.errors = invalid]
                /\ UNCHANGED store
         ELSE IF ~SlugIndexAdmits(store, id, doc.slug)
           THEN /\ last' = [Exchange("create", <<>>, body, actor,
                                     CreateCatch(DuplicateKeyCode).status,
                                     CreateCatch(DuplicateKeyCode).error,
                                     0, SchemaDefaults, TRUE, NoList)
                              EXCEPT !.files = files]
                /\ UNCHANGED store
         ELSE /\ Cardinality(Ids) < MaxProducts
              /\ store' = [i \in Ids \cup {id} |-> IF i = id THEN doc ELSE store[i]]
              /\ last' = [Exchange("create", <<>>, body, actor, 201, "none",
                                   id, doc, FALSE, NoList)
                            EXCEPT !.files = files]
  /\ UNCHANGED <<saves, listReq>>
  /\ UNCHANGED <<log, subscribers, welcomes>>

\* ------------------------------------------------------------ loaded documents

\* A save() in flight, called on the document that findById returned (loaded)
\* as the handler changed it in memory (doc). The pre-save hooks and the
\* modified paths depend on the in-memory document alone, so the write is
\* settled when save() is called; it reaches the store later. op, target, body
\* and actor are the request a handler awaiting the save will answer, data the
\* product it will answer with (PUT /:id); rejected tells that the store failed
\* the write and the promise of save() is rejected.
PendingSave(op, target, body, actor, pid, loaded, doc) ==
  [op |-> op, target |-> target, body |-> body, actor |-> actor, pid |-> pid,
   rejected |-> FALSE,
   delta |-> Delta(doc, loaded),
   data |-> IF op = "update" THEN PreSave(doc, ModifiedPaths(doc, loaded))
                             ELSE SchemaDefaults]

InFlight == BagCardinality(saves)

\* GET /:identifier: look the product up, answer 404 when it is missing or
\* inactive; otherwise call incrementViews() without awaiting it and answer
\* with the product.
GetProduct(x) ==
  LET id == Lookup(store, x)
  IN  /\ IF Hidden(store, id)
           THEN /\ last' = Exchange("get", x, NoBody, NoUser, 404, "NotFound",
                                    0, SchemaDefaults, FALSE, NoList)
                /\ UNCHANGED saves
           ELSE /\ InFlight < MaxReqs
                /\ store[id].views < MaxCount
                /\ saves' = saves (+) SetToBag({PendingSave("incrementViews", <<>>, NoBody,
                                       NoUser, id, store[id], Increment(store[id], "views"))})
                /\ last' = Exchange("get", x, NoBody, NoUser, 200, "none",
                                    id, Increment(store[id], "views"), FALSE, NoList)
      /\ UNCHANGED <<store, listReq, log, subscribers, welcomes>>

\* GET /:id/download (behind auth): findById throws on an identifier of the
\* wrong shape (500); 404 when missing or inactive; otherwise
\* incrementDownloads() without awaiting it, and the files.
Download(x, user) ==
  LET id == FindById(store, x)
  IN  /\ IF ~IsObjectIdShaped(x)
           THEN /\ last' = Exchange("download", x, NoBody, user, 500, "ServerError",
                                    0, SchemaDefaults, FALSE, NoList)
                /\ UNCHANGED saves
         ELSE IF Hidden(store, id)
           THEN /\ last' = Exchange("download", x, NoBody, user, 404, "NotFound",
                                    0, SchemaDefaults, FALSE, NoList)
                /\ UNCHANGED saves
         ELSE /\ InFlight < MaxReqs
              /\ store[id].downloads < MaxCount
              /\ saves' = saves (+) SetToBag({PendingSave("incrementDownloads", <<>>, NoBody,
                                     NoUser, id, store[id], Increment(store[id], "downloads"))})
              /\ last' = Exchange("download", x, NoBody, user, 200, "none",
                                  id, Increment(store[id], "downloads"), FALSE, NoList)
      /\ UNCHANGED <<store, listReq>>
      /\ UNCHANGED <<log, subscribers, welcomes>>

\* PUT /:id up to its save(): validate, findById, copy every key of the body
\* onto the document, set updatedBy.
UpdateProduct(x, body, actor) ==
  LET id == FindById(store, x)
  IN  /\ IF InvalidFields(body, FALSE) # {}
           THEN /\ last' = [Exchange("update", x, body, actor, 400, "ValidationError",
                                     0, SchemaDefaults, FALSE, NoList)
                              EXCEPT !.errors = InvalidFields(body, FALSE)]
                /\ UNCHANGED saves
         ELSE IF ~IsObjectIdShaped(x)
           THEN /\ last' = Exchange("update", x, body, actor, UpdateCatch(0).status,
                                    UpdateCatch(0).error, 0, SchemaDefaults, FALSE, NoList)
                /\ UNCHANGED saves
         ELSE IF id = 0
           THEN /\ last' = Exchange("update", x, body, actor, 404, "NotFound",
                                    0, SchemaDefaults, FALSE, NoList)
                /\ UNCHANGED saves
         ELSE /\ InFlight < MaxReqs
              /\ saves' = saves (+) SetToBag({PendingSave("update", x, body, actor, id,
                            store[id], [Assign(store[id], body) EXCEPT !.updatedBy = actor])})
              /\ UNCHANGED last
      /\ UNCHANGED <<store, listReq>>
      /\ UNCHANGED <<log, subscribers, welcomes>>

\* DELETE /:id up to its save(): findById, isActive = false, set updatedBy.
SoftDeleteProduct(x, actor) ==
  LET id == FindById(store, x)
  IN  /\ IF ~IsObjectIdShaped(x)
           THEN /\ last' = Exchange("delete", x, NoBody, actor, DeleteCatch(0).status,
                                    DeleteCatch(0).error, 0, SchemaDefaults, FALSE, NoList)
                /\ UNCHANGED saves
         ELSE IF id = 0
           THEN /\ last' = Exchange("delete", x, NoBody, actor, 404, "NotFound",
                                    0, SchemaDefaults, FALSE, NoList)
                /\ UNCHANGED saves
         ELSE /\ InFlight < MaxReqs
              /\ saves' = saves (+) SetToBag({PendingSave("delete", x, NoBody, actor, id,
                            store[id],
                            [store[id] EXCEPT !.isActive = FALSE, !.updatedBy = actor])})
              /\ UNCHANGED last
      /\ UNCHANGED <<store, listReq>>
      /\ UNCHANGED <<log, subscribers, welcomes>>

\* ---------------------------------------------------------------------- save

\* The response of the handler that awaited a save(); the increments are not
\* awaited, so they complete no exchange (a failure is only logged).
Awaited(p) == p.op \in {"update", "delete"}

SaveCatch(p, code) == IF p.op = "update" THEN UpdateCatch(code) ELSE DeleteCatch(code)

\* The write of a save() reaches the store: the modified paths are written
\* (the unique index may refuse a write of slug), and the awaiting handler, if
\* any, responds.
Save(p) ==
  /\ BagIn(p, saves)
  /\ ~p.rejected
  /\ saves' = saves (-) SetToBag({p})
  /\ LET refused == /\ "slug" \in DOMAIN p.delta
                       /\ ~SlugIndexAdmits(store, p.pid, p.delta.slug)
     IN  IF refused
           THEN /\ UNCHANGED store
                /\ IF Awaited(p)
                     THEN last' = Exchange(p.op, p.target, p.body, p.actor,
                                           SaveCatch(p, DuplicateKeyCode).status,
                                           SaveCatch(p, DuplicateKeyCode).error,
                                           0, SchemaDefaults, TRUE, NoList)
                     ELSE UNCHANGED last
           ELSE /\ store' = [store EXCEPT ![p.pid] = ApplyDelta(@, p.delta)]
                /\ IF Awaited(p)
                     THEN last' = Exchange(p.op, p.target, p.body, p.actor, 200, "none",
                                           p.pid, p.data, FALSE, NoList)
                     ELSE UNCHANGED last
  /\ UNCHANGED listReq
  /\ UNCHANGED <<log, subscribers, welcomes>>

\* The store fails the write of a save() (the connection is lost, the write
\* times out): nothing is written and the promise of save() is rejected.
StoreRejects(p) ==
  /\ BagIn(p, saves)
  /\ ~p.rejected
  /\ saves' = (saves (-) SetToBag({p})) (+) SetToBag({[p EXCEPT !.rejected = TRUE]})
  /\ UNCHANGED <<store, listReq, last, log, subscribers, welcomes>>

\* A .catch that lets the rejection go without a message.
IncrementCatch_Silent(op) == {}

\* .catch(err => console.error('Error incrementing ...:', err)) attached to
\* incrementViews() and incrementDownloads(): the messages it logs.
IncrementCatch(op) ==
  IF op = "incrementViews" THEN {"Error incrementing views:"}
                           ELSE {"Error incrementing downloads:"}

\* The rejection of a save() is delivered: to the catch block of the handler
\* that awaits it, which answers 500, or to the .catch of an increment.
SaveRejected(p) ==
  /\ BagIn(p, saves)
  /\ p.rejected
  /\ saves' = saves (-) SetToBag({p})
  /\ IF Awaited(p)
       THEN /\ last' = Exchange(p.op, p.target, p.body, p.actor,
                                 SaveCatch(p, 0).status, SaveCatch(p, 0).error,
                                 0, SchemaDefaults, FALSE, NoList)
            /\ UNCHANGED <<log, subscribers, welcomes>>
       ELSE /\ log' = log \cup IncrementCatch(p.op)
            /\ UNCHANGED last
  /\ UNCHANGED <<store, listReq, subscribers, welcomes>>

\* ---------------------------------------------------------------------- list

\* The values of a query string are strings: page, limit, minPrice, maxPrice
\* and search are sequences of characters, as the names are; category, sort
\* and featured, which the code only compares with fixed words, are words.

\* The number a digit character stands for.
DigitValue(c) == CHOOSE n \in 0..9 : <<"0", "1", "2", "3", "4", "5", "6", "7", "8", "9">>[n + 1] = c

IsSign(c) == c \in {"+", "-"}

\* The characters of s after an optional sign.
Unsigned(s) == IF s # <<>> /\ IsSign(Head(s)) THEN Tail(s) ELSE s

SignOf(s) == IF s # <<>> /\ Head(s) = "-" THEN -1 ELSE 1

\* The longest prefix of s made of digits.
RECURSIVE LeadingDigits(_)
LeadingDigits(s) ==
  IF s # <<>> /\ Head(s) \in DigitChars
    THEN <<Head(s)>> \o LeadingDigits(Tail(s))
    ELSE <<>>

\* The number a sequence of digits writes in base ten (0 for no digit).
RECURSIVE DigitsValue(_)
DigitsValue(ds) ==
  IF ds = <<>> THEN 0
  ELSE 10 * DigitsValue(SubSeq(ds, 1, Len(ds) - 1)) + DigitValue(ds[Len(ds)])

\* parseInt(s): an optional sign and the digits that follow, up to the first
\* character that is not a digit. (Without a leading digit the result is NaN;
\* the validators let no such string reach parseInt.)
parseInt(s) == SignOf(s) * DigitsValue(LeadingDigits(Unsigned(s)))

\* parseFloat(s) of a string whose fraction, if any, is made of zeros: the
\* number before the decimal point.
parseFloat(s) == SignOf(s) * DigitsValue(LeadingDigits(Unsigned(s)))

\* isInt of express-validator: /^[-+]?(0|[1-9][0-9]*)$/.
isInt(s) ==
  LET u == Unsigned(s)
  IN  /\ u # <<>>
      /\ \A i \in 1..Len(u) : u[i] \in DigitChars
      /\ Len(u) > 1 => u[1] # "0"

\* isFloat of express-validator: /^[-+]?[0-9]*(\.[0-9]*)?$/ (the exponent is
\* left out), and none of '', '.', '+', '-'.
isFloat(s) ==
  LET u == Unsigned(s)
      whole == LeadingDigits(u)
      rest == SubSeq(u, Len(whole) + 1, Len(u))
  IN  /\ s \notin {<<>>, <<".">>, <<"+">>, <<"-">>}
      /\ \/ rest = <<>>
         \/ /\ Head(rest) = "."
            /\ \A i \in 2..Len(rest) : rest[i] \in DigitChars

\* The query-string validators of GET /: the parameters that fail, which
\* errors.array() reports one and all. A parameter that is absent passes
\* (optional()); featured has no validator.
SortKeys == {"newest", "oldest", "price-low", "price-high", "popular", "rating"}

InvalidParams(params) ==
  {k \in DOMAIN params :
     CASE k = "page" -> ~(isInt(params.page) /\ parseInt(params.page) >= 1)
       [] k = "limit" -> ~(/\ isInt(params.limit)
                           /\ parseInt(params.limit) >= 1
                           /\ parseInt(params.limit) <= MaxLimit)
       [] k = "category" -> params.category \notin Categories
       [] k = "minPrice" -> ~(isFloat(params.minPrice) /\ parseFloat(params.minPrice) >= 0)
       [] k = "maxPrice" -> ~(isFloat(params.maxPrice) /\ parseFloat(params.maxPrice) >= 0)
       [] k = "sort" -> params.sort \notin SortKeys
       [] k = "search" -> ~(Len(params.search) >= 1 /\ Len(params.search) <= MaxSearchLen)
       [] OTHER -> FALSE}

\* The destructuring defaults of the handler.
Param(params, k, default) == IF k \in DOMAIN params THEN params[k] ELSE default

\* parseInt(page), parseInt(limit)
PageOf(params) == IF "page" \in DOMAIN params THEN parseInt(params.page) ELSE DefaultPage
LimitOf(params) == IF "limit" \in DOMAIN params THEN parseInt(params.limit) ELSE DefaultLimit

\* if (minPrice), if (search), ...: a parameter that is present and not the
\* empty string.
Truthy(params, k) ==
  /\ k \in DOMAIN params
  /\ k \in {"minPrice", "maxPrice", "search"} => params[k] # <<>>

\* A filter document without the implicit isActive key.
BuildQuery_NoActive(params) ==
  LET has(k) == Truthy(params, k)
      keys == (IF has("category") THEN {"category"} ELSE {})
                \cup (IF has("minPrice") THEN {"priceGte"} ELSE {})
                \cup (IF has("maxPrice") THEN {"priceLte"} ELSE {})
                \cup (IF has("featured") /\ params.featured = "true"
                        THEN {"isFeatured"} ELSE {})
                \cup (IF has("search") THEN {"text"} ELSE {})
  IN  [k \in keys |->
         CASE k = "category" -> params.category
           [] k = "priceGte" -> parseFloat(params.minPrice)
           [] k = "priceLte" -> parseFloat(params.maxPrice)
           [] k = "isFeatured" -> TRUE
           [] k = "text" -> params.search]

\* Build query: the filter document handed to find and countDocuments. Every
\* key but isActive is optional.
BuildQuery(params) ==
  LET has(k) == Truthy(params, k)
      keys == {"isActive"}
                \cup (IF has("category") THEN {"category"} ELSE {})
                \cup (IF has("minPrice") THEN {"priceGte"} ELSE {})
                \cup (IF has("maxPrice") THEN {"priceLte"} ELSE {})
                \cup (IF has("featured") /\ params.featured = "true"
                        THEN {"isFeatured"} ELSE {})
                \cup (IF has("search") THEN {"text"} ELSE {})
  IN  [k \in keys |->
         CASE k = "isActive" -> TRUE
           [] k = "category" -> params.category
           [] k = "priceGte" -> parseFloat(params.minPrice)
           [] k = "priceLte" -> parseFloat(params.maxPrice)
           [] k = "isFeatured" -> TRUE
           [] k = "text" -> params.search]

\* The words of a text, lowercased: the store's text index splits on whatever
\* is not a letter or a digit and ignores case.
RECURSIVE Tokens(_)
Tokens(s) ==
  LET t == slugify(s)
      cut == IF \E i \in 1..Len(t) : t[i] = "-"
               THEN CHOOSE i \in 1..Len(t) : t[i] = "-" /\ \A j \in 1..(i - 1) : t[j] # "-"
               ELSE Len(t) + 1
  IN  IF t = <<>> THEN {}
      ELSE {SubSeq(t, 1, cut - 1)} \cup Tokens(SubSeq(t, cut + 1, Len(t)))

\* The store's relevance score of a document for a search term: the words of
\* the term found in the indexed text (here the name).
TextScore(doc, term) == Cardinality(Tokens(term) \cap Tokens(doc.name))

\* A store that reads $gte as "greater than".
Matches_StrictGte(doc, query) ==
  LET has(k) == k \in DOMAIN query
  IN  /\ has("isActive") => doc.isActive = query.isActive
      /\ has("category") => doc.category = query.category
      /\ has("priceGte") => doc.price > query.priceGte
      /\ has("priceLte") => doc.price <= query.priceLte
      /\ has("isFeatured") => doc.isFeatured = query.isFeatured
      /\ has("text") => TextScore(doc, query.text) > 0

\* Whether the store's document satisfies the filter document.
Matches(doc, query) ==
  LET has(k) == k \in DOMAIN query
  IN  /\ has("isActive") => doc.isActive = query.isActive
      /\ has("category") => doc.category = query.category
      /\ has("priceGte") => doc.price >= query.priceGte
      /\ has("priceLte") => doc.price <= query.priceLte
      /\ has("isFeatured") => doc.isFeatured = query.isFeatured
      /\ has("text") => TextScore(doc, query.text) > 0

\* A switch whose popular case lists the views before the sales.
SortObj_ViewsFirst(sort, searching) ==
  LET byKey ==
        CASE sort = "newest" -> <<[field |-> "createdAt", dir |-> -1]>>
          [] sort = "oldest" -> <<[field |-> "createdAt", dir |-> 1]>>
          [] sort = "price-low" -> <<[field |-> "price", dir |-> 1]>>
          [] sort = "price-high" -> <<[field |-> "price", dir |-> -1]>>
          [] sort = "popular" -> <<[field |-> "views", dir |-> -1],
                                   [field |-> "sales", dir |-> -1]>>
          [] sort = "rating" -> <<[field |-> "ratingAverage", dir |-> -1],
                                  [field |-> "ratingCount", dir |-> -1]>>
          [] OTHER -> <<[field |-> "createdAt", dir |-> -1]>>
  IN  IF searching THEN <<[field |-> "score", dir |-> -1]>> \o byKey ELSE byKey

\* A handler that adds the text score after the criteria of the sort key.
SortObj_ScoreLast(sort, searching) ==
  LET byKey ==
        CASE sort = "newest" -> <<[field |-> "createdAt", dir |-> -1]>>
          [] sort = "oldest" -> <<[field |-> "createdAt", dir |-> 1]>>
          [] sort = "price-low" -> <<[field |-> "price", dir |-> 1]>>
          [] sort = "price-high" -> <<[field |-> "price", dir |-> -1]>>
          [] sort = "popular" -> <<[field |-> "sales", dir |-> -1],
                                   [field |-> "views", dir |-> -1]>>
          [] sort = "rating" -> <<[field |-> "ratingAverage", dir |-> -1],
                                  [field |-> "ratingCount", dir |-> -1]>>
          [] OTHER -> <<[field |-> "createdAt", dir |-> -1]>>
  IN  IF searching THEN byKey \o <<[field |-> "score", dir |-> -1]>> ELSE byKey

\* Build sort object: the ordered (field, direction) pairs of a sort key; with
\* a search term the text score comes first.
SortObj(sort, searching) ==
  LET byKey ==
        CASE sort = "newest" -> <<[field |-> "createdAt", dir |-> -1]>>
          [] sort = "oldest" -> <<[field |-> "createdAt", dir |-> 1]>>
          [] sort = "price-low" -> <<[field |-> "price", dir |-> 1]>>
          [] sort = "price-high" -> <<[field |-> "price", dir |-> -1]>>
          [] sort = "popular" -> <<[field |-> "sales", dir |-> -1],
                                   [field |-> "views", dir |-> -1]>>
          [] sort = "rating" -> <<[field |-> "ratingAverage", dir |-> -1],
                                  [field |-> "ratingCount", dir |-> -1]>>
          [] OTHER -> <<[field |-> "createdAt", dir |-> -1]>>
  IN  IF searching THEN <<[field |-> "score", dir |-> -1]>> \o byKey ELSE byKey

\* The value a sort criterion reads from a stored document. createdAt follows
\* the order of insertion; score is the relevance for the search term.
SortValue(st, id, field, term) ==
  CASE field = "createdAt" -> id
    [] field = "score" -> TextScore(st[id], term)
    [] OTHER -> st[id][field]

\* Whether a must come before b under the criteria (strictly: a tie on every
\* criterion orders neither before the other).
RECURSIVE ComesBefore(_, _, _, _, _)
ComesBefore(st, a, b, criteria, term) ==
  IF criteria = <<>> THEN FALSE
  ELSE LET c == Head(criteria)
           va == SortValue(st, a, c.field, term) * c.dir
           vb == SortValue(st, b, c.field, term) * c.dir
       IN  IF va # vb THEN va < vb
           ELSE ComesBefore(st, a, b, Tail(criteria), term)

\* The orders in which the store may return the documents of S: every order
\* that respects the criteria (documents that tie come in any order).
SortedOrders(st, S, criteria, term) ==
  {order \in [1..Cardinality(S) -> S] :
     /\ \A i, j \in 1..Cardinality(S) : i # j => order[i] # order[j]
     /\ \A i, j \in 1..Cardinality(S) :
          i < j => ~ComesBefore(st, order[j], order[i], criteria, term)}

\* A fetch that leaves the skip out.
Window_NoSkip(order, skip, limit) ==
  SubSeq(order, 1, IF limit > Len(order) THEN Len(order) ELSE limit)

\* .skip(skip).limit(limit) of an ordered result.
Window(order, skip, limit) ==
  IF skip >= Len(order) THEN <<>>
  ELSE SubSeq(order, skip + 1, IF skip + limit > Len(order) THEN Len(order) ELSE skip + limit)

\* A division that rounds down.
CeilDiv_Floor(total, limit) == total \div limit

\* Math.ceil(total / limit)
CeilDiv(total, limit) == (total + limit - 1) \div limit

\* The GET / request: its parameters, what it built from them, what its two
\* store reads returned so far, and whether its caller gave up waiting.
Idle == [state |-> "idle", params |-> NoBody, query |-> NoBody, sortObj |-> <<>>,
         skip |-> 0, limit |-> 0,
         found |-> FALSE, data |-> <<>>, counted |-> FALSE, total |-> 0,
         abandoned |-> FALSE]

\* GET / up to Promise.all: validate; build the filter document, the sort
\* object and the window; both store reads are issued.
ListProducts(params) ==
  /\ listReq.state = "idle"
  /\ IF InvalidParams(params) # {}
       THEN /\ last' = [Exchange("list", <<>>, params, NoUser, 400, "ValidationError",
                                 0, SchemaDefaults, FALSE, NoList)
                          EXCEPT !.errors = InvalidParams(params)]
            /\ UNCHANGED listReq
       ELSE /\ listReq' =
                 [Idle EXCEPT !.state = "reading", !.params = params,
                    !.query = BuildQuery(params),
                    !.sortObj = SortObj(Param(params, "sort", "newest"),
                                        Truthy(params, "search")),
                    !.skip = (PageOf(params) - 1) * LimitOf(params),
                    !.limit = LimitOf(params)]
            /\ UNCHANGED last
  /\ UNCHANGED <<store, saves, log, subscribers, welcomes>>

\* Product.find(query).sort(sortObj).skip(skip).limit(limit) reaches the store.
ListFind ==
  /\ listReq.state = "reading"
  /\ ~listReq.found
  /\ LET term == Param(listReq.query, "text", <<>>)
         hits == {id \in Ids : Matches(store[id], listReq.query)}
     IN  \E order \in SortedOrders(store, hits, listReq.sortObj, term) :
           LET page == Window(order, listReq.skip, listReq.limit)
           IN  listReq' = [listReq EXCEPT !.found = TRUE,
                             !.data = [i \in 1..Len(page) |-> store[page[i]]]]
  /\ UNCHANGED <<store, saves, last, log, subscribers, welcomes>>

\* Product.countDocuments(query) reaches the store.
ListCount ==
  /\ listReq.state = "reading"
  /\ ~listReq.counted
  /\ listReq' = [listReq EXCEPT !.counted = TRUE,
        !.total = Cardinality({id \in Ids : Matches(store[id], listReq.query)})]
  /\ UNCHANGED <<store, saves, last, log, subscribers, welcomes>>

\* Both reads are back: compute the pagination and respond.
ListRespond ==
  /\ listReq.state = "reading"
  /\ listReq.found /\ listReq.counted
  /\ LET params == listReq.params
         total == listReq.total
         totalPages == CeilDiv(total, LimitOf(params))
         hasNextPage == PageOf(params) < totalPages
         hasPrevPage == PageOf(params) > 1
     IN  last' = Exchange("list", <<>>, params, NoUser, 200, "none", 0, SchemaDefaults, FALSE,
                   [data |-> listReq.data, currentPage |-> PageOf(params),
                    totalPages |-> totalPages, totalProducts |-> total,
                    hasNextPage |-> hasNextPage, hasPrevPage |-> hasPrevPage,
                    limit |-> LimitOf(params)])
  /\ listReq' = Idle
  /\ UNCHANGED <<store, saves, log, subscribers, welcomes>>

\* catch of GET /: every error becomes the generic 500, a message without data
\* and without pagination.
ListCatch(code) == [status |-> 500, error |-> "ServerError", list |-> NoList]

\* One of the two store reads is rejected: Promise.all rejects at once, the
\* catch block answers, and what the other read returns is dropped.
ListFails ==
  /\ listReq.state = "reading"
  /\ ~(listReq.found /\ listReq.counted)
  /\ last' = Exchange("list", <<>>, listReq.params, NoUser, ListCatch(0).status,
                      ListCatch(0).error, 0, SchemaDefaults, FALSE, ListCatch(0).list)
  /\ listReq' = Idle
  /\ UNCHANGED <<store, saves, log, subscribers, welcomes>>

\* The caller gives up (its deadline passes, it closes the connection) while
\* the handler awaits Promise.all. The handler sets no timer and listens to no
\* close event: it goes on awaiting.
Abandon ==
  /\ listReq.state = "reading"
  /\ ~(listReq.found /\ listReq.counted)
  /\ ~listReq.abandoned
  /\ listReq' = [listReq EXCEPT !.abandoned = TRUE]
  /\ UNCHANGED <<store, saves, last, log, subscribers, welcomes>>

\* ---------------------------------------------------------------- newsletter

\* The position of the first '@' of s, 0 when it has none.
AtSign(s) ==
  IF \E i \in 1..Len(s) : s[i] = "@"
    THEN CHOOSE i \in 1..Len(s) : s[i] = "@" /\ \A j \in 1..(i - 1) : s[j] # "@"
    ELSE 0

\* The position of the last '.' of s, 0 when it has none.
LastDot(s) ==
  IF \E i \in 1..Len(s) : s[i] = "."
    THEN CHOOSE i \in 1..Len(s) : s[i] = "." /\ \A j \in (i + 1)..Len(s) : s[j] # "."
    ELSE 0

\* isEmail of express-validator, over the characters of the model: a local
\* part of letters and digits, one '@', and a domain of labels of letters and
\* digits separated by dots, the last of them (the top-level domain, which is
\* required) of at least two letters.
isEmail(s) ==
  LET at == AtSign(s)
      local == SubSeq(s, 1, at - 1)
      domain == SubSeq(s, at + 1, Len(s))
      dot == LastDot(domain)
      tld == SubSeq(domain, dot + 1, Len(domain))
  IN  /\ at > 1
      /\ \A i \in 1..Len(local) : local[i] \in AlphaNum
      /\ dot > 1
      /\ \A i \in 1..Len(domain) : domain[i] \in AlphaNum \cup {"."}
      /\ \A i \in 1..(Len(domain) - 1) : ~(domain[i] = "." /\ domain[i + 1] = ".")
      /\ domain[1] # "."
      /\ Len(tld) >= 2
      /\ \A i \in 1..Len(tld) : tld[i] \in LowerChars \cup UpperChars

\* normalizeEmail of express-validator with its defaults, for an address
\* outside the providers it treats specially: the domain and the local part
\* are lowercased.
normalizeEmail(s) == [i \in 1..Len(s) |-> toLowerCase(s[i])]

\* The validators of POST /subscribe (email, and name when present) and of
\* POST /unsubscribe (email): the fields that fail.
InvalidSubscription(email, body) ==
  {k \in {"email", "name"} :
     CASE k = "email" -> ~isEmail(email)
       [] k = "name" ->
            /\ "name" \in DOMAIN body
            /\ ~(/\ Len(Trim(body.name)) >= MinSubscriberNameLen
                 /\ Len(Trim(body.name)) <= MaxSubscriberNameLen)}

\* A request for the welcome e-mail of a subscription: what POST /subscribe
\* awaits before it answers.
Welcome(raw, body) == [raw |-> raw, body |-> body, email |-> normalizeEmail(raw)]

\* A test that finds no address subscribed.
Subscribed_Never(subs, email) == FALSE

\* subscribers.has(email)
Subscribed(subs, email) == email \in subs

\* POST /subscribe up to its await: validate, refuse an address that is
\* subscribed, add the address, call sendEmail.
Subscribe(raw, body) ==
  LET email == normalizeEmail(raw)
  IN  /\ IF InvalidSubscription(raw, body) # {}
           THEN /\ last' = [Exchange("subscribe", raw, body, NoUser, 400, "ValidationError",
                                     0, SchemaDefaults, FALSE, NoList)
                              EXCEPT !.errors = InvalidSubscription(raw, body)]
                /\ UNCHANGED <<subscribers, welcomes>>
         ELSE IF Subscribed(subscribers, email)
           THEN /\ last' = Exchange("subscribe", raw, body, NoUser, 400, "AlreadySubscribed",
                                    0, SchemaDefaults, FALSE, NoList)
                /\ UNCHANGED <<subscribers, welcomes>>
         ELSE /\ BagCardinality(welcomes) < MaxReqs
              /\ subscribers' = subscribers \cup {email}
              /\ welcomes' = welcomes (+) SetToBag({Welcome(raw, body)})
              /\ UNCHANGED last
      /\ UNCHANGED <<store, saves, listReq, log>>

\* sendEmail resolves: the handler answers.
WelcomeSent(w) ==
  /\ BagIn(w, welcomes)
  /\ welcomes' = welcomes (-) SetToBag({w})
  /\ last' = Exchange("subscribe", w.raw, w.body, NoUser, 200, "none",
                      0, SchemaDefaults, FALSE, NoList)
  /\ UNCHANGED <<store, saves, listReq, log, subscribers>>

\* sendEmail rejects: the inner catch logs it, and the handler answers as if
\* the e-mail had been sent.
WelcomeFails(w) ==
  /\ BagIn(w, welcomes)
  /\ welcomes' = welcomes (-) SetToBag({w})
  /\ log' = log \cup {"Newsletter welcome email failed:"}
  /\ last' = Exchange("subscribe", w.raw, w.body, NoUser, 200, "none",
                      0, SchemaDefaults, FALSE, NoList)
  /\ UNCHANGED <<store, saves, listReq, subscribers>>

\* POST /unsubscribe: validate, delete the address, answer by whether it was
\* there.
Unsubscribe(raw) ==
  LET email == normalizeEmail(raw)
      wasSubscribed == email \in subscribers
  IN  /\ IF InvalidSubscription(raw, NoBody) # {}
           THEN /\ last' = [Exchange("unsubscribe", raw, NoBody, NoUser, 400,
                                     "ValidationError", 0, SchemaDefaults, FALSE, NoList)
                              EXCEPT !.errors = InvalidSubscription(raw, NoBody)]
                /\ UNCHANGED subscribers
           ELSE /\ subscribers' = subscribers \ {email}
                /\ last' = IF wasSubscribed
                             THEN Exchange("unsubscribe", raw, NoBody, NoUser, 200, "none",
                                           0, SchemaDefaults, FALSE, NoList)
                             ELSE Exchange("unsubscribe", raw, NoBody, NoUser, 400,
                                           "NotSubscribed", 0, SchemaDefaults, FALSE, NoList)
      /\ UNCHANGED <<store, saves, listReq, log, welcomes>>

\* GET /count: subscribers.size
SubscriberCount ==
  /\ last' = [Exchange("count", <<>>, NoBody, NoUser, 200, "none",
                       0, SchemaDefaults, FALSE, NoList)
                EXCEPT !.count = Cardinality(subscribers)]
  /\ UNCHANGED <<store, saves, listReq, log, subscribers, welcomes>>

\* ------------------------------------------------------------ specifications

Init ==
  /\ store = <<>>
  /\ saves = EmptyBag
  /\ listReq = Idle
  /\ last = NoExchange
  /\ log = {}
  /\ subscribers = {}
  /\ welcomes = EmptyBag

\* The inputs of the requests.
Admin == "admin1"
NameAB == <<"A", " ", "b">>
NameADashB == <<"a", "-", "b">>
NameB == <<"b", "!">>
NameBlank == <<" ">>
NameHex == ObjectId(1)

CreateBody(name) == [name |-> name, price |-> 0, category |-> "templates"]

\* The identifier of every product the store may hold.
RouteIds == {ObjectId(n) : n \in 1..MaxProducts}

\* A save() in flight that reaches the store in this step.
Lands(p) == BagIn(p, saves) /\ saves' = saves (-) SetToBag({p})

\* ---- Counters: reads that dispatch increments, and the soft delete.

NextCounters ==
  \/ CreateProduct(CreateBody(NameAB), Admin, 0)
  \/ \E x \in {ObjectId(1), slugify(NameAB)} : GetProduct(x)
  \/ \E x \in {ObjectId(1), slugify(NameAB)} : Download(x, Admin)
  \/ SoftDeleteProduct(ObjectId(1), Admin)
  \/ \E p \in BagToSet(saves) : Save(p)

SpecCounters == Init /\ [][NextCounters]_vars

\* C1: no increment is lost: every increment of views (of downloads, of sales)
\* that completes raises the stored counter by exactly one, so that N completed
\* increments leave it at its initial value plus N.
C1_NoLostIncrement ==
  [][\A p \in BagToSet(saves) :
       /\ Lands(p) /\ p.op = "incrementViews"
            => store'[p.pid].views = store[p.pid].views + 1
       /\ Lands(p) /\ p.op = "incrementDownloads"
            => store'[p.pid].downloads = store[p.pid].downloads + 1]_vars

\* C2: under getProduct, download and softDeleteProduct the stored views,
\* downloads and sales of a product never decrease.
C2_CountersMonotonic ==
  [][\A id \in Ids :
       /\ store'[id].views >= store[id].views
       /\ store'[id].downloads >= store[id].downloads
       /\ store'[id].sales >= store[id].sales]_vars

\* ---- Images: creates and updates that submit an images array, one request
\* at a time.

Image(flag) == [isPrimary |-> flag]
ImageLists == UNION {[1..n -> {Image(TRUE), Image(FALSE)}] : n \in 0..MaxImages}

NextImages ==
  \/ /\ InFlight = 0
     /\ \E images \in ImageLists :
          CreateProduct(CreateBody(NameAB) @@ [images |-> images], Admin, 0)
  \/ /\ InFlight = 0
     /\ \E files \in 1..MaxImages : CreateProduct(CreateBody(NameAB), Admin, files)
  \/ /\ InFlight = 0
     /\ \E images \in ImageLists : UpdateProduct(ObjectId(1), [images |-> images], Admin)
  \/ \E p \in BagToSet(saves) : Save(p)

SpecImages == Init /\ [][NextImages]_vars

Primaries(images) == {i \in 1..Len(images) : images[i].isPrimary}

Wrote(op) == last.op = op /\ last.status \in {200, 201}

\* C3: after a successful createProduct or updateProduct a non-empty stored
\* images sequence has exactly one image with isPrimary = true, whatever flags
\* were submitted; an empty images sequence is accepted and stays empty.
C3_ExactlyOnePrimary ==
  /\ \A id \in Ids :
       store[id].images # <<>> => Cardinality(Primaries(store[id].images)) = 1
  /\ (Wrote("create") \/ Wrote("update"))
       /\ last.files = 0 /\ "images" \in DOMAIN last.body /\ last.body.images = <<>>
       => last.doc.images = <<>>

\* The reconciliation the specification describes: the lowest-indexed marked
\* image stays the primary one; with none marked, the first image becomes it.
EarliestPrimary(images) ==
  LET marked == Primaries(images)
      keep == IF marked = {} THEN 1 ELSE CHOOSE i \in marked : \A j \in marked : i <= j
  IN  [i \in 1..Len(images) |-> [images[i] EXCEPT !.isPrimary = (i = keep)]]

\* C4: the images a successful createProduct or updateProduct wrote are the
\* submitted ones reconciled by the earliest-index rule: of several marked
\* images the lowest-indexed stays primary, with none marked the image at index
\* 0 becomes primary, with exactly one marked the flags are as submitted.
C4_EarliestMarkedSurvives ==
  (Wrote("create") \/ Wrote("update"))
    /\ last.files = 0 /\ "images" \in DOMAIN last.body
    => last.doc.images = EarliestPrimary(last.body.images)

\* ---- Writes: concurrent creates and updates of name and slug.

WriteBodies == {[name |-> NameAB], [slug |-> slugify(NameB)]}

NextWrites ==
  \/ \E name \in {NameADashB, NameB} : CreateProduct(CreateBody(name), Admin, 0)
  \/ \E x \in RouteIds, body \in WriteBodies : UpdateProduct(x, body, Admin)
  \/ \E p \in BagToSet(saves) : Save(p)

SpecWrites == Init /\ [][NextWrites]_vars

\* C6: no two stored products have the same slug, in every reachable state.
C6_UniqueSlugs ==
  \A a, b \in Ids : a # b => store[a].slug # store[b].slug

\* A second product exists and the store has just refused an update's write
\* of a slug that the other product holds.
C6_Witness ==
  /\ Cardinality(Ids) = 2
  /\ last.op = "update" /\ last.dup

\* A valid createProduct whose name derives a slug that a stored product holds.
CreateCollides ==
  /\ Responds /\ last'.op = "create"
  /\ InvalidFields(last'.body, TRUE) = {}
  /\ \E id \in Ids : store[id].slug = slugify(Trim(last'.body.name))

\* An updateProduct reaching the store with a new name whose derived slug
\* another stored product holds.
UpdateCollides ==
  \E p \in BagToSet(saves) :
    /\ Lands(p) /\ p.op = "update"
    /\ "name" \in DOMAIN p.delta
    /\ \E id \in Ids \ {p.pid} : store[id].slug = slugify(p.delta.name)

\* C7: a createProduct or updateProduct whose derived slug is the slug of
\* another stored product is rejected with DuplicateSlug, not with a generic
\* server error, and the store is left as it was.
C7_DuplicateSlugRejected ==
  [][CreateCollides \/ UpdateCollides
       => /\ Responds
          /\ last'.error = "DuplicateSlug"
          /\ store' = store]_vars

\* C8: in every reachable state each product's slug is the slug derived from
\* its name.
C8_SlugDerivedFromName ==
  \A id \in Ids : store[id].slug = slugify(store[id].name)

\* ---- Lifecycle: one product that is read, downloaded, soft-deleted and
\* updated.

LifecycleBodies == {[isActive |-> TRUE], [price |-> 1]}

NextLifecycle ==
  \/ CreateProduct(CreateBody(NameAB), Admin, 0)
  \/ GetProduct(ObjectId(1))
  \/ Download(ObjectId(1), Admin)
  \/ SoftDeleteProduct(ObjectId(1), Admin)
  \/ \E body \in LifecycleBodies : UpdateProduct(ObjectId(1), body, Admin)
  \/ \E p \in BagToSet(saves) : Save(p)

SpecLifecycle == Init /\ [][NextLifecycle]_vars

\* C5: once a product's isActive is false no operation sets it back to true:
\* isActive only ever changes from true to false.
C5_NeverReactivated ==
  [][\A id \in Ids : ~store[id].isActive => ~store'[id].isActive]_vars

\* ---- List: catalog queries while products are created and soft-deleted.

ListBody1 == [name |-> NameAB, price |-> 1, category |-> "templates", isFeatured |-> TRUE]
ListBody2 == [name |-> NameB, price |-> 2, category |-> "other"]

ListParams ==
  {NoBody,
   [category |-> "templates", featured |-> "true", sort |-> "price-high"],
   [minPrice |-> <<"1">>, maxPrice |-> <<"2">>, search |-> <<"b">>, limit |-> <<"1">>],
   [page |-> <<"2">>, limit |-> <<"1">>],
   [page |-> <<"0">>]}

NextList ==
  \/ \E body \in {ListBody1, ListBody2} : CreateProduct(body, Admin, 0)
  \/ SoftDeleteProduct(ObjectId(1), Admin)
  \/ \E p \in BagToSet(saves) : Save(p)
  \/ \E params \in ListParams : ListProducts(params)
  \/ ListFind
  \/ ListCount
  \/ ListRespond

SpecList == Init /\ [][NextList]_vars

ActiveIds == {id \in Ids : store[id].isActive}

\* C9: whatever the parameters and the store, each product in the data that
\* listProducts returns has isActive = true, and the total it counts (the
\* totalProducts of the response) counts active products only: it is the number
\* of active products that satisfy the other filters.
C9_ListShowsActiveOnly ==
  [][/\ Responds /\ last'.op = "list" /\ last'.status = 200
          => /\ \A i \in 1..Len(last'.list.data) : last'.list.data[i].isActive
             /\ last'.list.totalProducts = listReq.total
     /\ listReq'.counted /\ ~listReq.counted
          => /\ listReq'.total <= Cardinality(ActiveIds)
             /\ listReq'.total =
                  Cardinality({id \in ActiveIds :
                     Matches(store[id], listReq.query)})]_vars

\* A list was answered with a product while the store holds an inactive one.
C9_Witness ==
  /\ last.op = "list" /\ last.status = 200
  /\ last.list.data # <<>>
  /\ last.list.totalProducts = 1
  /\ \E id \in Ids : ~store[id].isActive

\* ---- Reads: lookups by identifier and by slug of products that are
\* soft-deleted, one of them named like an identifier.

ReadTargets == RouteIds \cup {slugify(NameAB)}

NextReads ==
  \/ \E name \in {NameAB, NameHex} : CreateProduct(CreateBody(name), Admin, 0)
  \/ \E x \in ReadTargets : GetProduct(x)
  \/ \E x \in RouteIds : SoftDeleteProduct(x, Admin)
  \/ \E p \in BagToSet(saves) : Save(p)

SpecReads == Init /\ [][NextReads]_vars

\* x is the identifier or the slug of a stored product whose isActive is false.
NamesInactive(x) ==
  \E id \in Ids : ~store[id].isActive /\ (x = ObjectId(id) \/ x = store[id].slug)

\* x is the identifier of a stored product whose isActive is true.
IdentifiesActive(x) == \E id \in Ids : store[id].isActive /\ x = ObjectId(id)

\* C10 as stated: getProduct called with the identifier or the slug of a
\* product whose isActive is false returns NotFound, and the record stays in
\* the store.
C10_InactiveIsNotFound ==
  [][Responds /\ last'.op = "get" /\ NamesInactive(last'.target)
       => last'.status = 404 /\ last'.error = "NotFound" /\ store' = store]_vars

\* C10 amended: getProduct called with the identifier or the slug of a product
\* whose isActive is false returns NotFound and the record stays in the store,
\* unless the input is also the identifier of an active product (an input that
\* has the shape of an identifier is looked up as an identifier only).
C10_InactiveIsNotFoundUnlessActiveId ==
  [][Responds /\ last'.op = "get" /\ NamesInactive(last'.target)
       /\ ~IdentifiesActive(last'.target)
       => last'.status = 404 /\ last'.error = "NotFound" /\ store' = store]_vars

\* getProduct was called with the slug of a stored inactive product and
\* answered NotFound.
C10_Witness ==
  /\ last.op = "get" /\ last.status = 404
  /\ \E id \in Ids : ~store[id].isActive /\ last.target = store[id].slug
                      /\ last.target # ObjectId(id)

\* ---- Catalog: catalog queries with filters and windows over a store that no
\* request writes to while a query runs.

CatalogBody1 ==
  [name |-> NameAB, price |-> 1, category |-> "templates", isFeatured |-> TRUE]
CatalogBody2 == [name |-> NameB, price |-> 2, category |-> "templates"]
CatalogBody3 == [name |-> <<"a">>, price |-> 2, category |-> "other"]

CatalogParams ==
  {NoBody,
   [category |-> "templates", sort |-> "price-low", limit |-> <<"1">>],
   [category |-> "templates", sort |-> "price-low", limit |-> <<"1">>, page |-> <<"2">>],
   [minPrice |-> <<"2">>, featured |-> "false"],
   [maxPrice |-> <<"1">>, featured |-> "true"],
   [minPrice |-> <<"2">>, maxPrice |-> <<"1">>],
   [minPrice |-> <<"1">>, maxPrice |-> <<"2">>, sort |-> "price-high", page |-> <<"3">>,
    limit |-> <<"1">>],
   [page |-> <<"9">>, limit |-> <<"1">>]}

\* No write is in progress.
Quiet == InFlight = 0 /\ listReq.state = "idle"

NextCatalog ==
  \/ /\ Quiet
     /\ \E body \in {CatalogBody1, CatalogBody2, CatalogBody3} : CreateProduct(body, Admin, 0)
  \/ Quiet /\ SoftDeleteProduct(ObjectId(1), Admin)
  \/ \E p \in BagToSet(saves) : Save(p)
  \/ /\ Quiet
     /\ \E params \in CatalogParams : ListProducts(params)
  \/ ListFind
  \/ ListCount
  \/ ListRespond

SpecCatalog == Init /\ [][NextCatalog]_vars

\* The active products that satisfy every filter the parameters supply.
Satisfying(params) ==
  {id \in Ids :
     /\ store[id].isActive
     /\ "category" \in DOMAIN params => store[id].category = params.category
     /\ "minPrice" \in DOMAIN params => store[id].price >= parseFloat(params.minPrice)
     /\ "maxPrice" \in DOMAIN params => store[id].price <= parseFloat(params.maxPrice)
     /\ ("featured" \in DOMAIN params /\ params.featured = "true") => store[id].isFeatured}

\* The pages the claim allows: the elements at positions [skip, skip + limit)
\* of a sequence of the satisfying products in the order of the resolved sort.
ClaimedPages(params) ==
  LET hits == Satisfying(params)
      limit == LimitOf(params)
      skip == (PageOf(params) - 1) * limit
      left == Cardinality(hits) - skip
      size == IF left <= 0 THEN 0 ELSE IF left < limit THEN left ELSE limit
  IN  {[i \in 1..size |-> store[order[skip + i]]] :
         order \in SortedOrders(store, hits, SortObj(Param(params, "sort", "newest"), FALSE),
                                <<>>)}

\* A catalog query is answered.
Listed == Responds /\ last'.op = "list" /\ last'.status = 200

\* C11: with no concurrent writes, listProducts with valid parameters returns
\* as data exactly the elements at positions [skip, skip + limit) of the
\* active products that satisfy every supplied filter, in the order of the
\* resolved sort, and totalProducts is the number of all of them; minPrice
\* above maxPrice gives an empty result, not an error.
C11_PageOfFilteredSorted ==
  [][/\ Listed
          => /\ last'.list.data \in ClaimedPages(last'.body)
             /\ last'.list.totalProducts = Cardinality(Satisfying(last'.body))
     /\ (/\ Responds /\ last'.op = "list"
         /\ InvalidParams(last'.body) = {}
         /\ {"minPrice", "maxPrice"} \subseteq DOMAIN last'.body
         /\ parseFloat(last'.body.minPrice) > parseFloat(last'.body.maxPrice))
          => /\ last'.status = 200
             /\ last'.list.data = <<>>
             /\ last'.list.totalProducts = 0]_vars

\* The second page, of one item, was served out of the two products that
\* satisfy the category filter.
C11_Witness ==
  /\ last.op = "list" /\ last.status = 200
  /\ "page" \in DOMAIN last.body /\ "category" \in DOMAIN last.body
  /\ Len(last.list.data) = 1
  /\ last.list.totalProducts = 2

\* ---- Sort: catalog queries under every sort key, with and without a search
\* term, over products that differ in price, sales, views and rating.

SortBody1 ==
  [name |-> NameAB, price |-> 2, category |-> "templates",
   sales |-> 1, views |-> 0, ratingAverage |-> 2, ratingCount |-> 1]
SortBody2 ==
  [name |-> NameB, price |-> 1, category |-> "templates",
   sales |-> 1, views |-> 1, ratingAverage |-> 2, ratingCount |-> 2]
SortBody3 ==
  [name |-> <<"a">>, price |-> 1, category |-> "other",
   sales |-> 0, views |-> 2, ratingAverage |-> 1, ratingCount |-> 0]

SortParams ==
  {NoBody, [sort |-> "bogus"],
   [search |-> <<"a", " ", "b">>, sort |-> "price-low"],
   [search |-> <<"b">>]}
    \cup {[sort |-> key] : key \in SortKeys}

NextSort ==
  \/ /\ Quiet
     /\ \E body \in {SortBody1, SortBody2, SortBody3} : CreateProduct(body, Admin, 0)
  \/ /\ Quiet
     /\ \E params \in SortParams : ListProducts(params)
  \/ ListFind
  \/ ListCount
  \/ ListRespond

SpecSort == Init /\ [][NextSort]_vars

\* The criteria the sort keys resolve to, as the claim lists them; an absent
\* key resolves as newest.
ClaimedCriteria(params) ==
  LET key == IF "sort" \in DOMAIN params THEN params.sort ELSE "newest"
  IN  CASE key = "newest" -> <<[field |-> "createdAt", dir |-> -1]>>
        [] key = "oldest" -> <<[field |-> "createdAt", dir |-> 1]>>
        [] key = "price-low" -> <<[field |-> "price", dir |-> 1]>>
        [] key = "price-high" -> <<[field |-> "price", dir |-> -1]>>
        [] key = "popular" -> <<[field |-> "sales", dir |-> -1],
                                [field |-> "views", dir |-> -1]>>
        [] key = "rating" -> <<[field |-> "ratingAverage", dir |-> -1],
                               [field |-> "ratingCount", dir |-> -1]>>

\* The stored product a returned document is.
IdOf(doc) == CHOOSE id \in Ids : store[id].name = doc.name

\* Product a may come before product b under the criteria: it is ahead on the
\* first criterion, or level on it and allowed before b by the rest.
RECURSIVE MayPrecede(_, _, _, _)
MayPrecede(a, b, criteria, term) ==
  IF criteria = <<>> THEN TRUE
  ELSE LET c == Head(criteria)
           va == SortValue(store, a, c.field, term)
           vb == SortValue(store, b, c.field, term)
       IN  \/ (IF c.dir = 1 THEN va < vb ELSE va > vb)
           \/ va = vb /\ MayPrecede(a, b, Tail(criteria), term)

\* The documents come in an order the criteria allow.
InOrder(data, criteria, term) ==
  \A i, j \in 1..Len(data) :
    i < j => MayPrecede(IdOf(data[i]), IdOf(data[j]), criteria, term)

\* The windowed fetch of a catalog query returns in this step.
Found == listReq'.found /\ ~listReq.found

\* C12: the sort key resolves to: newest, and an absent key, createdAt
\* descending; oldest, createdAt ascending; price-low, price ascending;
\* price-high, price descending; popular, sales descending then views
\* descending; rating, rating average descending then rating count descending;
\* and the products come back in that order, the second criterion deciding
\* only between products level on the first.
C12_SortKeyResolves ==
  [][Found /\ "search" \notin DOMAIN listReq.params
       => /\ listReq.sortObj = ClaimedCriteria(listReq.params)
          /\ InOrder(listReq'.data, ClaimedCriteria(listReq.params), <<>>)]_vars

\* Two products level on sales were listed by popularity, the one with more
\* views first.
C12_Witness ==
  /\ last.op = "list" /\ last.status = 200
  /\ "sort" \in DOMAIN last.body /\ last.body.sort = "popular"
  /\ Len(last.list.data) = 2
  /\ last.list.data[1].sales = last.list.data[2].sales
  /\ last.list.data[1].views > last.list.data[2].views

\* The request with its sort key replaced by newest.
AsNewest(params) == [k \in DOMAIN params |-> IF k = "sort" THEN "newest" ELSE params[k]]

\* C13: listProducts called with a sort key outside newest, oldest, price-low,
\* price-high, popular and rating returns no error: it returns what the same
\* request returns with sort = newest.
C13_UnknownSortFallsBack ==
  [][(/\ Responds /\ last'.op = "list"
      /\ "sort" \in DOMAIN last'.body /\ last'.body.sort \notin SortKeys
      /\ InvalidParams(AsNewest(last'.body)) = {})
       => /\ last'.status = 200
          /\ last'.list.data \in ClaimedPages(AsNewest(last'.body))
          /\ last'.list.totalProducts = Cardinality(Satisfying(last'.body))]_vars

\* The criteria the claim gives a request with a search term: the relevance
\* score, then the criteria of the sort key.
ScoreFirst(params) == <<[field |-> "score", dir |-> -1]>> \o ClaimedCriteria(params)

\* C14: with a search term the sort criteria passed to the store are the
\* relevance score first, then the criteria resolved from the sort key in
\* their order (and the products come back in that order); without a search
\* term the criteria hold no relevance score and the filter no text predicate.
C14_RelevanceFirst ==
  [][Found
       => IF "search" \in DOMAIN listReq.params
            THEN /\ listReq.sortObj = ScoreFirst(listReq.params)
                 /\ "text" \in DOMAIN listReq.query
                 /\ listReq.query.text = listReq.params.search
                 /\ InOrder(listReq'.data, ScoreFirst(listReq.params),
                            listReq.params.search)
            ELSE /\ \A i \in 1..Len(listReq.sortObj) : listReq.sortObj[i].field # "score"
                 /\ "text" \notin DOMAIN listReq.query]_vars

\* A search with a sort key was answered with two products, the more relevant
\* one first although the sort key alone would put it last.
C14_Witness ==
  /\ last.op = "list" /\ last.status = 200
  /\ "search" \in DOMAIN last.body
  /\ Len(last.list.data) = 2
  /\ TextScore(last.list.data[1], last.body.search)
       > TextScore(last.list.data[2], last.body.search)
  /\ last.list.data[1].price > last.list.data[2].price

\* ---- Pages: catalog queries with page and limit while products are created.

PageParams ==
  {NoBody,
   [page |-> <<"2">>],
   [limit |-> <<"1">>],
   [limit |-> <<"2">>],
   [page |-> <<"2">>, limit |-> <<"1">>],
   [page |-> <<"2">>, limit |-> <<"2">>],
   [page |-> <<"3">>, limit |-> <<"1">>],
   [limit |-> <<"1", "0", "0">>]}

NextPages ==
  \/ \E body \in {CatalogBody1, CatalogBody2, CatalogBody3} : CreateProduct(body, Admin, 0)
  \/ \E params \in PageParams : ListProducts(params)
  \/ ListFind
  \/ ListCount
  \/ ListRespond

SpecPages == Init /\ [][NextPages]_vars

\* page and limit as the claim reads them: absent, they are 1 and 12.
ClaimedPage(params) == IF "page" \in DOMAIN params THEN parseInt(params.page) ELSE 1
ClaimedLimit(params) == IF "limit" \in DOMAIN params THEN parseInt(params.limit) ELSE 12

\* n = ceil(total / limit): the least number of pages of limit items that
\* hold total items.
IsCeil(n, total, limit) ==
  /\ n >= 0
  /\ n * limit >= total
  /\ n > 0 => (n - 1) * limit < total

\* C15: for every page >= 1, limit in 1..100 and total >= 0, listProducts
\* computes skip = (page - 1) * limit, totalPages = ceil(total / limit) (0 when
\* total = 0), hasNextPage = (page < totalPages), hasPrevPage = (page > 1), and
\* reports currentPage = page and limit = limit; absent page and limit are
\* taken as 1 and 12.
C15_Pagination ==
  [][/\ listReq'.state = "reading" /\ listReq.state = "idle"
          => listReq'.skip = (ClaimedPage(listReq'.params) - 1) * ClaimedLimit(listReq'.params)
     /\ Listed
          => LET page == ClaimedPage(last'.body)
                 limit == ClaimedLimit(last'.body)
                 out == last'.list
             IN  /\ out.totalProducts = listReq.total
                 /\ IsCeil(out.totalPages, listReq.total, limit)
                 /\ listReq.total = 0 => out.totalPages = 0
                 /\ out.hasNextPage = (page < out.totalPages)
                 /\ out.hasPrevPage = (page > 1)
                 /\ out.currentPage = page
                 /\ out.limit = limit]_vars

\* A query with limit 2 counted three products, or one, and reported the
\* partly filled page too.
C15_Witness ==
  /\ last.op = "list" /\ last.status = 200
  /\ last.list.limit = 2
  /\ last.list.totalProducts \in {1, 3}
  /\ last.list.totalPages * 2 = last.list.totalProducts + 1

\* C16: whenever the count of matching products is 0 the pagination has
\* totalPages = 0, hasNextPage = false and hasPrevPage = false, for every valid
\* page, page > 1 included.
C16_EmptyHasNoNeighbours ==
  [][Listed /\ last'.list.totalProducts = 0
       => /\ last'.list.totalPages = 0
          /\ ~last'.list.hasNextPage
          /\ ~last'.list.hasPrevPage]_vars

\* C17: with no concurrent writes, listProducts with a valid page greater than
\* totalPages succeeds, returns an empty data sequence and reports hasNextPage
\* = false, with the totalProducts and totalPages of page 1: the number of
\* products that satisfy the filters and the pages they fill.
C17_OverPaging ==
  [][(/\ Responds /\ last'.op = "list"
      /\ InvalidParams(last'.body) = {}
      /\ ClaimedPage(last'.body) * ClaimedLimit(last'.body)
           >= Cardinality(Satisfying(last'.body)) + ClaimedLimit(last'.body))
       => /\ last'.status = 200
          /\ last'.list.data = <<>>
          /\ ~last'.list.hasNextPage
          /\ last'.list.totalProducts = Cardinality(Satisfying(last'.body))
          /\ IsCeil(last'.list.totalPages, Cardinality(Satisfying(last'.body)),
                    ClaimedLimit(last'.body))]_vars

\* A page beyond the last one was asked of a filter that two products satisfy.
C17_Witness ==
  /\ last.op = "list" /\ last.status = 200
  /\ last.list.totalProducts = 2
  /\ last.list.currentPage > last.list.totalPages
  /\ last.list.data = <<>>

\* ---- Validation: catalog queries with well-formed and malformed parameters.

LongSearch == [i \in 1..(MaxSearchLen + 1) |-> "a"]

ValidationParams ==
  {NoBody,
   [page |-> <<"1">>, featured |-> "maybe"],
   [page |-> <<"0">>],
   [page |-> <<"b">>],
   [page |-> <<"1", ".", "5">>],
   [limit |-> <<"1", "0", "1">>],
   [category |-> "bogus"],
   [minPrice |-> <<"-", "1">>],
   [maxPrice |-> <<"a">>],
   [search |-> LongSearch],
   [search |-> <<>>],
   [sort |-> "bogus"],
   [page |-> <<"0">>, limit |-> <<"0">>, category |-> "bogus", minPrice |-> <<"1">>]}

NextValidation ==
  \/ \E body \in {CatalogBody1, CatalogBody2} : CreateProduct(body, Admin, 0)
  \/ \E params \in ValidationParams : ListProducts(params)
  \/ ListFind
  \/ ListCount
  \/ ListRespond

SpecValidation == Init /\ [][NextValidation]_vars

\* The supplied parameters that are malformed, as the claim lists them.
Malformed(params) ==
  {k \in DOMAIN params :
     CASE k = "page" -> ~(isInt(params.page) /\ parseInt(params.page) >= 1)
       [] k = "limit" -> ~(isInt(params.limit) /\ parseInt(params.limit) \in 1..100)
       [] k = "category" -> params.category \notin Categories
       [] k = "minPrice" -> ~(isFloat(params.minPrice) /\ parseFloat(params.minPrice) >= 0)
       [] k = "maxPrice" -> ~(isFloat(params.maxPrice) /\ parseFloat(params.maxPrice) >= 0)
       [] k = "search" -> Len(params.search) > 100
       [] OTHER -> FALSE}

\* C18: listProducts returns a ValidationError exactly when at least one
\* supplied parameter is malformed (page not an integer >= 1, limit not an
\* integer in 1..100, category outside the enumeration, minPrice or maxPrice
\* negative or not a number, search longer than 100 characters); the error
\* lists every malformed parameter, and no store query is issued.
C18_ValidationErrorExactly ==
  [][/\ Responds /\ last'.op = "list"
          => /\ (last'.error = "ValidationError") = (Malformed(last'.body) # {})
             /\ last'.error = "ValidationError"
                  => /\ last'.errors = Malformed(last'.body)
                     /\ listReq' = listReq
     /\ listReq'.state = "reading" /\ listReq.state = "idle"
          => Malformed(listReq'.params) = {}]_vars

\* ---- Lookup: reads by identifier and by slug of products one of which has
\* a slug of 24 hex characters.

NameHexWord == [i \in 1..ObjectIdLen |-> IF i = 1 THEN "A" ELSE "b"]

LookupTargets == {ObjectId(1), slugify(NameAB), slugify(NameHexWord)}

NextLookup ==
  \/ \E name \in {NameAB, NameHexWord} : CreateProduct(CreateBody(name), Admin, 0)
  \/ \E x \in LookupTargets : GetProduct(x)
  \/ \E p \in BagToSet(saves) : Save(p)

SpecLookup == Init /\ [][NextLookup]_vars

\* C19: getProduct resolves its input as an identifier or as a slug (24 hex
\* characters are tried as an identifier first, then as a slug), so that every
\* active product is returned by getProduct of its identifier and by
\* getProduct of its slug, whatever the slug looks like.
C19_FoundByIdOrSlug ==
  [][Responds /\ last'.op = "get"
       => \A id \in Ids :
            store[id].isActive
              /\ (last'.target = ObjectId(id) \/ last'.target = store[id].slug)
              => last'.status = 200 /\ last'.pid = id]_vars

\* ---- Failures: reads and downloads of a product created active or inactive,
\* whose increments the store may fail.

NextFailures ==
  \/ \E active \in BOOLEAN :
       CreateProduct(CreateBody(NameAB) @@ [isActive |-> active], Admin, 0)
  \/ GetProduct(ObjectId(1))
  \/ Download(ObjectId(1), Admin)
  \/ \E p \in BagToSet(saves) : Save(p)
  \/ \E p \in BagToSet(saves) : StoreRejects(p)
  \/ \E p \in BagToSet(saves) : SaveRejected(p)

SpecFailures == Init /\ [][NextFailures]_vars

\* The save() of an increment is called in this step.
Dispatched(p) ==
  /\ p.op \in {"incrementViews", "incrementDownloads"}
  /\ ~p.rejected
  /\ CopiesIn(p, saves') > CopiesIn(p, saves)

\* The message the handlers log for a failed increment.
IncrementMessage(op) ==
  IF op = "incrementViews" THEN "Error incrementing views:"
                           ELSE "Error incrementing downloads:"

\* C20: the outcome of getProduct and of download for an active product does
\* not depend on the outcome of the increment they dispatch: a failed write of
\* the increment is logged and changes no response, the caller getting the
\* successful product response; and the increment is dispatched only after
\* the product was found active.
C20_IncrementFailureIsSwallowed ==
  [][/\ \A p \in BagToSet(saves) :
          Lands(p) /\ p.rejected /\ ~Awaited(p)
            => /\ last' = last
               /\ IncrementMessage(p.op) \in log'
               /\ store' = store
     /\ \A p \in BagToSet(saves') :
          Dispatched(p)
            => /\ store[p.pid].isActive
               /\ Responds /\ last'.status = 200 /\ last'.pid = p.pid
               /\ last'.op = (IF p.op = "incrementViews" THEN "get" ELSE "download")]_vars

\* The increment of a successful getProduct failed and was logged; the
\* response stands.
C20_Witness ==
  /\ last.op = "get" /\ last.status = 200
  /\ "Error incrementing views:" \in log
  /\ store[last.pid].views = 0

\* ---- Views: reads and downloads of one product, whose view increments all
\* reach the store.

\* The save() that incrementViews() calls on the product loaded with views = v.
ViewsSave(v) ==
  PendingSave("incrementViews", <<>>, NoBody, NoUser, 1,
              [SchemaDefaults EXCEPT !.views = v],
              Increment([SchemaDefaults EXCEPT !.views = v], "views"))

\* The views a getProduct may read: those below the cap on the counter.
ViewsRead == 0..(MaxCount - 1)

NextViews ==
  \/ CreateProduct(CreateBody(NameAB), Admin, 0)
  \/ \E x \in {ObjectId(1), slugify(NameAB)} : GetProduct(x)
  \/ Download(ObjectId(1), Admin)
  \/ \E p \in BagToSet(saves) : Save(p)

\* The store answers every write: a save() that was called reaches the store.
SpecViews ==
  /\ Init
  /\ [][NextViews]_vars
  /\ \A v \in ViewsRead : WF_vars(Save(ViewsSave(v)))

\* A successful getProduct read views = v, and the increment it dispatched is
\* on its way to the store.
GetRead(v) == BagIn(ViewsSave(v), saves)

\* The stored views of the product are above v.
ViewsAbove(v) == Ids # {} /\ store[1].views > v

\* The write of every dispatched increment lands: a successful getProduct that
\* read views = v is followed by a state whose stored views are above v.
ReadIsOvertaken == \A v \in ViewsRead : GetRead(v) ~> ViewsAbove(v)

\* C21: under fairness and with no store failure, a successful getProduct that
\* read views = v is eventually followed by a state whose stored views are
\* strictly greater than v, and the stored views stay greater, so that the
\* getProduct calls that follow observe a strictly greater views value than
\* this one did.
C21_ViewsKeepIncreasing == \A v \in ViewsRead : GetRead(v) ~> []ViewsAbove(v)

\* ---- Delete: soft deletes by identifier, known, unknown and of the wrong
\* shape, next to creates, reads and an update.

DeleteTargets == RouteIds \cup {slugify(NameAB)}

NextDelete ==
  \/ \E name \in {NameAB, NameB} : CreateProduct(CreateBody(name), Admin, 0)
  \/ GetProduct(ObjectId(1))
  \/ UpdateProduct(ObjectId(1), [price |-> 1], Admin)
  \/ \E x \in DeleteTargets : SoftDeleteProduct(x, Admin)
  \/ \E p \in BagToSet(saves) : Save(p)

SpecDelete == Init /\ [][NextDelete]_vars

\* x is the identifier of no stored product.
Unknown(x) == \A id \in Ids : ObjectId(id) # x

\* C22: no public operation removes a product record: the set of product
\* identifiers in the store never shrinks; softDeleteProduct on an existing
\* product changes only isActive (to false) and updatedBy (to the actor);
\* softDeleteProduct on an unknown identifier returns NotFound and changes
\* nothing.
C22_NeverRemoved ==
  [][/\ Ids \subseteq DOMAIN store'
     /\ \A p \in BagToSet(saves) :
          Lands(p) /\ p.op = "delete"
            => /\ ~store'[p.pid].isActive
               /\ store'[p.pid].updatedBy = p.actor
               /\ \A k \in Fields \ {"isActive", "updatedBy"} :
                    store'[p.pid][k] = store[p.pid][k]
               /\ \A id \in Ids \ {p.pid} : store'[id] = store[id]
     /\ (Responds /\ last'.op = "delete" /\ Unknown(last'.target))
          => /\ last'.status = 404 /\ last'.error = "NotFound"
             /\ store' = store]_vars

\* ---- Managed: creates and updates whose bodies carry keys of the schema
\* that the server manages (slug, the counters, createdBy).

\* A user other than the one who acts.
Other == "user2"

ManagedBodies ==
  {[price |-> 1], [name |-> NameB], [slug |-> slugify(NameB)],
   [views |-> 1], [createdBy |-> Other]}

NextManaged ==
  \/ \E body \in {CreateBody(NameAB), CreateBody(NameAB) @@ [createdBy |-> Other]} :
       CreateProduct(body, Admin, 0)
  \/ \E body \in ManagedBodies : UpdateProduct(ObjectId(1), body, Admin)
  \/ \E p \in BagToSet(saves) : Save(p)

SpecManaged == Init /\ [][NextManaged]_vars

\* The paths of the usage statistics.
Stats == {"views", "downloads", "sales", "ratingAverage", "ratingCount"}

\* An updateProduct succeeds in this step: its write reaches the store.
Updated(p) == Lands(p) /\ p.op = "update" /\ Responds /\ last'.status = 200

\* C23: updateProduct never writes the server-managed fields from the
\* caller's input: whatever the body, a successful update leaves the product's
\* stats and createdBy unchanged and changes slug only together with name; and
\* createProduct stores createdBy = the acting user whatever the body holds.
C23_ManagedFieldsNotWritten ==
  [][/\ \A p \in BagToSet(saves) :
          Updated(p)
            => /\ \A k \in Stats \cup {"createdBy"} : store'[p.pid][k] = store[p.pid][k]
               /\ store'[p.pid].slug # store[p.pid].slug
                    => store'[p.pid].name # store[p.pid].name
     /\ (Responds /\ last'.op = "create" /\ last'.status = 201)
          => store'[last'.pid].createdBy = last'.actor]_vars

\* ---- Waiting: catalog queries whose store reads may fail and whose caller
\* may give up before they are back.

WaitingParams == {NoBody, [limit |-> <<"1">>], [page |-> <<"2">>, limit |-> <<"1">>]}

NextWaiting ==
  \/ \E body \in {CatalogBody1, CatalogBody2} : CreateProduct(body, Admin, 0)
  \/ \E params \in WaitingParams : ListProducts(params)
  \/ ListFind
  \/ ListCount
  \/ ListFails
  \/ Abandon
  \/ ListRespond

SpecWaiting == Init /\ [][NextWaiting]_vars

\* A catalog query is answered with an error that carries neither data nor
\* pagination.
BareError == last'.status >= 400 /\ last'.list = NoList

\* C24: listProducts sends its response only after both the windowed fetch
\* and the count have completed; when either of them fails, or the request is
\* abandoned before both complete, the caller gets an error response that
\* carries neither data nor pagination: no partial result is ever returned.
C24_NoPartialResult ==
  [][/\ Listed => listReq.found /\ listReq.counted
     /\ (/\ Responds /\ last'.op = "list"
         /\ listReq.state = "reading"
         /\ (~(listReq.found /\ listReq.counted) \/ listReq.abandoned))
          => BareError]_vars

\* ---- Race: reads and downloads of one product whose increments are in
\* flight while the product is soft-deleted or updated, one such write at a
\* time.

\* An update of name, price and images that also sets the views, to a value
\* that no increment writes.
RaceBody ==
  [name |-> NameB, price |-> 1, images |-> <<Image(FALSE)>>, views |-> MaxCount + 1]

\* No soft delete and no update is between its findById and its save().
NoWriteInFlight == \A p \in BagToSet(saves) : ~Awaited(p)

NextRace ==
  \/ CreateProduct(CreateBody(NameAB), Admin, 0)
  \/ GetProduct(ObjectId(1))
  \/ Download(ObjectId(1), Admin)
  \/ NoWriteInFlight /\ SoftDeleteProduct(ObjectId(1), Admin)
  \/ NoWriteInFlight /\ UpdateProduct(ObjectId(1), RaceBody, Admin)
  \/ \E p \in BagToSet(saves) : Save(p)

SpecRace == Init /\ [][NextRace]_vars

\* The counter an increment writes.
CounterOf(op) == IF op = "incrementViews" THEN "views" ELSE "downloads"

EmailA == <<"A", "@", "b", ".", "a", "a">>
EmailLowerA == <<"a", "@", "b", ".", "a", "a">>
EmailB == <<"b", "@", "b", ".", "a", "a">>
EmailNoTld == <<"a", "@", "b">>

Emails == {EmailA, EmailLowerA, EmailB, EmailNoTld}

SubscriberBodies == {NoBody, [name |-> <<"a", "b">>], [name |-> <<"a", " ">>]}

NextNewsletter ==
  \/ \E raw \in Emails, body \in SubscriberBodies : Subscribe(raw, body)
  \/ \E w \in BagToSet(welcomes) : WelcomeSent(w)
  \/ \E w \in BagToSet(welcomes) : WelcomeFails(w)
  \/ \E raw \in Emails : Unsubscribe(raw)
  \/ SubscriberCount

SpecNewsletter == Init /\ [][NextNewsletter]_vars

\* A subscribe request for address e is accepted in this step: it goes on to
\* its welcome e-mail, and to its successful response.
Accepted(e) ==
  \E w \in BagToSet(welcomes') :
    w.email = e /\ CopiesIn(w, welcomes') > CopiesIn(w, welcomes)

\* A valid request of the kind op is answered in this step.
Answered(op) == Responds /\ last'.op = op /\ last'.error # "ValidationError"

\* C26: in every interleaving of valid subscribe and unsubscribe requests a
\* subscribe succeeds exactly when the address is not in the subscriber set
\* and an unsubscribe exactly when it is; of several concurrent subscribe
\* requests for one address exactly one succeeds (none is accepted while the
\* address is subscribed); a failing welcome e-mail neither undoes nor fails
\* the subscription; subscriberCount is the number of distinct addresses
\* subscribed.
C26_SubscriberSet ==
  [][/\ \A e \in {normalizeEmail(raw) : raw \in Emails} :
          Accepted(e) => e \notin subscribers /\ subscribers' = subscribers \cup {e}
     /\ (Answered("subscribe") /\ last'.status # 200)
          => /\ normalizeEmail(last'.target) \in subscribers
             /\ last'.error = "AlreadySubscribed"
             /\ subscribers' = subscribers /\ welcomes' = welcomes
     /\ (Answered("subscribe") /\ last'.status = 200)
          => /\ \E w \in BagToSet(welcomes) :
                  w.raw = last'.target /\ welcomes' = welcomes (-) SetToBag({w})
             /\ subscribers' = subscribers
     /\ (\E w \in BagToSet(welcomes) : welcomes' = welcomes (-) SetToBag({w}))
          => Answered("subscribe") /\ last'.status = 200
     /\ Answered("unsubscribe")
          => /\ (last'.status = 200) = (normalizeEmail(last'.target) \in subscribers)
             /\ subscribers' = subscribers \ {normalizeEmail(last'.target)}
     /\ Answered("count")
          => last'.count = Cardinality(subscribers) /\ subscribers' = subscribers]_vars

\* The subscription of an address written with a capital was answered with
\* success although a welcome e-mail has failed; the address is subscribed, in
\* lower case, next to another one, and no request is waiting.
C26_Witness ==
  /\ last.op = "subscribe" /\ last.status = 200
  /\ last.target = EmailA
  /\ "Newsletter welcome email failed:" \in log
  /\ subscribers = {EmailLowerA, EmailB}
  /\ welcomes = EmptyBag

\* ---- Admin: the routes that write, behind the admin middleware, called
\* by an administrator, by another user and without a user.

\* req.user as the admin middleware finds it: the authenticated user, or
\* nothing.
NoReqUser == [id |-> NoUser, role |-> "none"]
AdminUser == [id |-> Admin, role |-> "admin"]
PlainUser == [id |-> Other, role |-> "user"]
ReqUsers == {NoReqUser, AdminUser, PlainUser}

\* The outcomes of a middleware: it answers with a status, or it calls next().
Answer(status, error) == [next |-> FALSE, status |-> status, error |-> error]
CallNext == [next |-> TRUE, status |-> 0, error |-> "none"]

\* A middleware that asks for a user and for no role.
admin_AnyUser(user) ==
  IF user = NoReqUser THEN {Answer(401, "Unauthenticated")} ELSE {CallNext}

\* The admin middleware: what it does with a request, as a set of outcomes.
\* Nothing in its try block throws (a handler called through next() reports
\* its errors to the router, not to its caller), so its catch answers nothing.
admin(user) ==
  IF user = NoReqUser THEN {Answer(401, "Unauthenticated")}
  ELSE IF user.role # "admin" THEN {Answer(403, "Forbidden")}
  ELSE {CallNext}

\* A route behind [auth, admin]: the middleware's answer is the response, or
\* the handler runs.
Behind(user, op, target, body, handler) ==
  \E outcome \in admin(user) :
    IF outcome.next
      THEN handler
      ELSE /\ last' = Exchange(op, target, body, user.id, outcome.status, outcome.error,
                               0, SchemaDefaults, FALSE, NoList)
           /\ UNCHANGED <<store, saves, listReq, log, subscribers, welcomes>>

\* POST /, PUT /:id and DELETE /:id with their middleware.
PostProduct(user, body) ==
  Behind(user, "create", <<>>, body, CreateProduct(body, user.id, 0))

PutProduct(user, x, body) ==
  Behind(user, "update", x, body, UpdateProduct(x, body, user.id))

DeleteProduct(user, x) ==
  Behind(user, "delete", x, NoBody, SoftDeleteProduct(x, user.id))

NextAdmin ==
  \/ \E user \in ReqUsers : PostProduct(user, CreateBody(NameAB))
  \/ \E user \in ReqUsers : PutProduct(user, ObjectId(1), [price |-> 1])
  \/ \E user \in ReqUsers : DeleteProduct(user, ObjectId(1))
  \/ \E p \in BagToSet(saves) : Save(p)

SpecAdmin == Init /\ [][NextAdmin]_vars

\* The role of the user with the given id; none for no user.
RoleOf(id) ==
  IF \E user \in ReqUsers : user.id = id
    THEN (CHOOSE user \in ReqUsers : user.id = id).role
    ELSE "none"

\* A handler behind the middleware runs in this step for a request of the
\* user with the given id: it answers, or it calls save().
HandlerRuns(id) ==
  \/ /\ Responds /\ last'.actor = id
     /\ last'.op \in {"create", "update", "delete"}
     /\ last'.status \notin {401, 403}
  \/ \E p \in BagToSet(saves') :
       p.actor = id /\ Awaited(p) /\ CopiesIn(p, saves') > CopiesIn(p, saves)

\* C27: the admin middleware produces exactly one outcome per request: it
\* calls next() if and only if req.user exists and its role is 'admin'; it
\* answers 401 when req.user is absent and 403 when the role is anything
\* else; so the handlers of createProduct, updateProduct and softDeleteProduct
\* never run for a request that is not an administrator's.
C27_AdminOnly ==
  [][/\ \A user \in ReqUsers :
          /\ Cardinality(admin(user)) = 1
          /\ (CallNext \in admin(user)) = (user # NoReqUser /\ user.role = "admin")
          /\ user = NoReqUser => \A o \in admin(user) : o.status = 401
          /\ (user # NoReqUser /\ user.role # "admin")
               => \A o \in admin(user) : o.status = 403
     /\ \A user \in ReqUsers :
          HandlerRuns(user.id) => user.role = "admin"
     /\ (Responds /\ last'.op \in {"create", "update", "delete"}
           /\ RoleOf(last'.actor) # "admin")
          => /\ last'.status = (IF last'.actor = NoUser THEN 401 ELSE 403)
             /\ store' = store /\ saves' = saves]_vars

\* A soft delete by a user who is no administrator was answered 403, and the
\* product it named is stored and active.
C27_Witness ==
  /\ last.op = "delete" /\ last.status = 403
  /\ last.actor = Other
  /\ \E id \in Ids : ObjectId(id) = last.target /\ store[id].isActive

====
